---- MODULE Spec2Model ----
(***************************************************************************)
(* The calculator route: POST '' -> run(data: ImageData).                  *)
(* src/apps/calculator/route.py                                            *)
(*                                                                         *)
(* A request carries an image string (data-URL form) and a dict_of_vars.   *)
(* run splits the image string on ",", base64-decodes element [1], opens   *)
(* the bytes as an image, calls analyze_image, copies what it returned     *)
(* into data_list, prints the last response (or None) and returns the      *)
(* envelope.  run is a coroutine function that contains no await, so the   *)
(* event loop executes one request from its first line to its return or    *)
(* raise before it starts another.                                         *)
(***************************************************************************)
EXTENDS Integers, Sequences, FiniteSets, TLC

(* ------------------------------ bounds -------------------------------- *)

\* Number of requests the event loop is given.
NumRequests == 2

\* Longest image string of the single-request specification.
MaxImageLen == 6

\* Longest sequence of result items analyze_image emits.
MaxItems == 2

Requests == 1..NumRequests

(* ------------------------------ values -------------------------------- *)

\* Python's None.
None == "None"

\* A name that is not bound yet, and a name bound to the value v.
Unbound == <<>>
Some(v) == <<v>>
Val(b) == b[1]

\* Characters an image string is made of: the separator, two characters of
\* the base64 alphabet, and the base64 pad.
Comma == ","
Pad == "="
Chars == {Comma, "Q", "A", Pad}

\* dict_of_vars values: the empty mapping and a mapping with one entry.
\* A mapping is the set of its (name, value) entries.
EmptyVars == {}
OneVar == {<<"x", 5>>}
VarMaps == {EmptyVars, OneVar}

\* Result items analyze_image emits (opaque to the handler).
Items == {"r1", "r2"}

RECURSIVE SeqsUpTo(_, _)
SeqsUpTo(S, n) ==
    IF n = 0 THEN {<<>>}
    ELSE LET shorter == SeqsUpTo(S, n - 1)
         IN  shorter \cup {Append(s, x) : s \in {t \in shorter : Len(t) = n - 1}, x \in S}

(* ------------------------- str.split(",")[1] -------------------------- *)

\* Index of the first occurrence of c in s at or after position i; 0 if none.
RECURSIVE FindFrom(_, _, _)
FindFrom(s, c, i) ==
    IF i > Len(s) THEN 0
    ELSE IF s[i] = c THEN i
    ELSE FindFrom(s, c, i + 1)

\* str.split(sep) with no maxsplit: the string is cut at every separator.
RECURSIVE Split(_, _)
Split(s, sep) ==
    LET i == FindFrom(s, sep, 1)
    IN  IF i = 0 THEN <<s>>
        ELSE <<SubSeq(s, 1, i - 1)>> \o Split(SubSeq(s, i + 1, Len(s)), sep)

\* data.image.split(",")[1]: element [1] of the split (the second part), or
\* IndexError when the split has one part only.
SplitSecond(s) ==
    LET parts == Split(s, Comma)
    IN  IF Len(parts) < 2
        THEN [ok |-> FALSE, exc |-> "IndexError", value |-> Unbound]
        ELSE [ok |-> TRUE, exc |-> None, value |-> parts[2]]

(* --------------------------- base64.b64decode -------------------------- *)

\* Value of a character in the base64 alphabet; 64 for a character outside it.
B64Value(c) ==
    CASE c = "A" -> 0
      [] c = "Q" -> 16
      [] OTHER -> 64

\* One character of binascii.a2b_base64 in its default, non-strict mode.
\* st = [quad_pos, leftchar, pads, out, done].
B64Step(st, c) ==
    IF c = Pad
    THEN IF st.quad_pos >= 2 /\ st.quad_pos + st.pads + 1 >= 4
         THEN [st EXCEPT !.done = TRUE]
         ELSE IF st.quad_pos >= 2
              THEN [st EXCEPT !.pads = st.pads + 1]
              ELSE st
    ELSE LET v == B64Value(c)
         IN  IF v >= 64 THEN st
             ELSE CASE st.quad_pos = 0 ->
                         [st EXCEPT !.quad_pos = 1, !.leftchar = v, !.pads = 0]
                    [] st.quad_pos = 1 ->
                         [st EXCEPT !.quad_pos = 2,
                                    !.out = Append(st.out, (st.leftchar * 4 + v \div 16) % 256),
                                    !.leftchar = v % 16, !.pads = 0]
                    [] st.quad_pos = 2 ->
                         [st EXCEPT !.quad_pos = 3,
                                    !.out = Append(st.out, (st.leftchar * 16 + v \div 4) % 256),
                                    !.leftchar = v % 4, !.pads = 0]
                    [] OTHER ->
                         [st EXCEPT !.quad_pos = 0,
                                    !.out = Append(st.out, (st.leftchar * 64 + v) % 256),
                                    !.leftchar = 0, !.pads = 0]

RECURSIVE B64Scan(_, _, _)
B64Scan(s, i, st) ==
    IF i > Len(s) \/ st.done THEN st
    ELSE B64Scan(s, i + 1, B64Step(st, s[i]))

\* base64.b64decode(s): the decoded bytes, or binascii.Error when the data
\* characters do not end on a quad and no pad sequence completes them.
B64Decode(s) ==
    LET st == B64Scan(s, 1, [quad_pos |-> 0, leftchar |-> 0, pads |-> 0,
                             out |-> <<>>, done |-> FALSE])
    IN  IF st.done \/ st.quad_pos = 0
        THEN [ok |-> TRUE, exc |-> None, value |-> st.out]
        ELSE [ok |-> FALSE, exc |-> "binascii.Error", value |-> Unbound]

(* ------------------------- Image.open(BytesIO) ------------------------- *)

\* Image.open identifies a stream by the signature it starts with; here the
\* signature is one byte, 65, the byte "QQ==" decodes to.
ImageMagic == 65

\* Image.open(BytesIO(image_data)): an image object over the bytes, or
\* UnidentifiedImageError when no format recognises them.
ImageOpen(bytes) ==
    IF Len(bytes) >= 1 /\ bytes[1] = ImageMagic
    THEN [ok |-> TRUE, exc |-> None, value |-> [pixels |-> bytes]]
    ELSE [ok |-> FALSE, exc |-> "UnidentifiedImageError", value |-> Unbound]

(* ------------------- analyze_image(image, dict_of_vars) ---------------- *)

\* What one call of analyze_image can produce.  The collaborator lives in
\* apps/calculator/utils.py; its contract is "produces a sequence of result
\* items", which is the kind list.  The other kinds are what the handler
\* meets when the collaborator does not keep to it.
\*   list      : the call returns the sequence items (a list)
\*   raise     : the call raises
\*   failing   : the call returns an object whose iteration raises after it
\*               has yielded items
\*   coroutine : analyze_image is asynchronous: the call returns a coroutine
\*               object that would produce items if it were awaited
Outcome(k, s) == [kind |-> k, items |-> s]

AllOutcomes ==
    {Outcome("raise", <<>>)}
    \cup {Outcome(k, s) : k \in {"list", "failing", "coroutine"},
                          s \in SeqsUpTo(Items, MaxItems)}

SampleOutcomes ==
    {Outcome("raise", <<>>), Outcome("list", <<>>), Outcome("list", <<"r1">>),
     Outcome("list", <<"r2", "r1">>), Outcome("failing", <<"r2">>),
     Outcome("coroutine", <<"r1">>)}

(* ------------------------------ requests ------------------------------ *)

\* Image strings of the single-request specification: every string over
\* Chars up to MaxImageLen.
AllImages == SeqsUpTo(Chars, MaxImageLen)

\* Image strings of the concurrent specification.
NoCommaImage    == <<"Q", "Q", "=", "=">>
GoodImage       == <<"A", ",", "Q", "Q", "=", "=">>
BadPaddingImage == <<"A", ",", "Q", "Q">>
NotAnImage      == <<"A", ",", "A", "A", "=", "=">>
TwoCommaImage   == <<",", "Q", "Q", ",", "=", "=">>
SampleImages ==
    {NoCommaImage, GoodImage, BadPaddingImage, NotAnImage, TwoCommaImage}

(* ------------------------------- state -------------------------------- *)

VARIABLES
    current,     \* the request the event loop is executing run for; 0 if none
    pc,          \* per request: the line of run it is at
    req,         \* per request: the ImageData payload (image, dict_of_vars)
    payload,     \* per request: the text handed to base64.b64decode
    image_data,  \* per request: local image_data
    image,       \* per request: local image
    responses,   \* per request: local responses
    data_list,   \* per request: local data_list
    it,          \* per request: items the for loop has taken from responses
    result,      \* per request: the value run returned
    exc,         \* per request: the exception that left run
    stdout,      \* the console: lines printed, in order
    calls        \* calls of analyze_image, in order, with what each produced

vars == <<current, pc, req, payload, image_data, image, responses, data_list,
          it, result, exc, stdout, calls>>

Init ==
    /\ current = 0
    /\ pc = [r \in Requests |-> "pending"]
    /\ req = [r \in Requests |-> Unbound]
    /\ payload = [r \in Requests |-> Unbound]
    /\ image_data = [r \in Requests |-> Unbound]
    /\ image = [r \in Requests |-> Unbound]
    /\ responses = [r \in Requests |-> Unbound]
    /\ data_list = [r \in Requests |-> Unbound]
    /\ it = [r \in Requests |-> 0]
    /\ result = [r \in Requests |-> Unbound]
    /\ exc = [r \in Requests |-> None]
    /\ stdout = <<>>
    /\ calls = <<>>

(* ------------------------- pieces of the handler ----------------------- *)

\* A faulty variant of DecoderInput: element [0] of the split instead of element [1].
DecoderInputFirst(img) ==
    [ok |-> TRUE, exc |-> None, value |-> Split(img, Comma)[1]]

\* Line 12, the argument of b64decode: data.image.split(",")[1].
DecoderInput(img) == SplitSecond(img)

\* A faulty variant of CallArgs: dict_of_vars is not passed on, the collaborator gets
\* an empty mapping.
CallArgsNoVars(r) == [image |-> Val(image[r]), dict_of_vars |-> EmptyVars]

\* Line 15, the arguments of the call.
CallArgs(r) == [image |-> Val(image[r]), dict_of_vars |-> Val(req[r]).dict_of_vars]

\* A variant of CallValue: the call is awaited, so a coroutine's result is bound.
CallValueAwaited(out) ==
    IF out.kind = "coroutine" THEN [kind |-> "list", items |-> out.items] ELSE out

\* Line 15, what is bound to responses: the value of the call expression.
\* There is no await: a coroutine object is bound as it is.
CallValue(out) == out

\* A faulty variant of NewList: data_list is one list shared by the requests, never
\* emptied: a request starts from the longest list a request has built.
SharedList ==
    LET built == {q \in Requests : data_list[q] # Unbound}
    IN  IF built = {} THEN <<>>
        ELSE Val(data_list[CHOOSE q \in built :
                     \A p \in built : Len(Val(data_list[p])) <= Len(Val(data_list[q]))])

\* Line 16.
NewList == <<>>

\* A faulty variant of ListAppend: the item is inserted at the front.
ListPrepend(list, x) == <<x>> \o list

\* Line 18.
ListAppend(list, x) == Append(list, x)

\* A faulty variant of LastOrNone: responses[-1] without the test of responses.
LastUnguarded(resp) ==
    IF Len(resp.items) > 0
    THEN [ok |-> TRUE, exc |-> None, value |-> resp.items[Len(resp.items)]]
    ELSE [ok |-> FALSE, exc |-> "IndexError", value |-> Unbound]

\* A faulty variant of LastOrNone: responses[0] instead of responses[-1].
FirstOrNone(resp) ==
    IF Len(resp.items) > 0
    THEN [ok |-> TRUE, exc |-> None, value |-> resp.items[1]]
    ELSE [ok |-> TRUE, exc |-> None, value |-> None]

\* Lines 19-22, the second argument of print: responses[-1] when responses
\* is truthy, None otherwise.
LastOrNone(resp) ==
    IF Len(resp.items) > 0
    THEN [ok |-> TRUE, exc |-> None, value |-> resp.items[Len(resp.items)]]
    ELSE [ok |-> TRUE, exc |-> None, value |-> None]

\* A faulty variant of Envelope: another status string.
EnvelopeOtherStatus(list) ==
    [message |-> "Image processed", data |-> list, status |-> "ok"]

\* Line 23.
Envelope(list) ==
    [message |-> "Image processed", data |-> list, status |-> "success"]

\* A faulty variant of Raise: the exception is caught and an error envelope returned.
RaiseCaught(r, e) ==
    /\ pc' = [pc EXCEPT ![r] = "raised"]
    /\ exc' = [exc EXCEPT ![r] = e]
    /\ current' = 0
    /\ result' = [result EXCEPT ![r] =
                     Some([message |-> e, data |-> <<>>, status |-> "error"])]

\* An exception raised in run: nothing in run catches it, so it leaves run
\* and the event loop is free again.
Raise(r, e) ==
    /\ pc' = [pc EXCEPT ![r] = "raised"]
    /\ exc' = [exc EXCEPT ![r] = e]
    /\ current' = 0
    /\ UNCHANGED result

\* Control moves to the next line of run.
Goto(r, line) ==
    /\ pc' = [pc EXCEPT ![r] = line]
    /\ UNCHANGED <<exc, current, result>>

(* ------------------------------ actions ------------------------------- *)

\* Lines 10-11: the framework calls run with a validated ImageData.
Receive(r, images) ==
    /\ current = 0
    /\ pc[r] = "pending"
    /\ \E img \in images, dv \in VarMaps :
           req' = [req EXCEPT ![r] = Some([image |-> img, dict_of_vars |-> dv])]
    /\ pc' = [pc EXCEPT ![r] = "decode"]
    /\ current' = r
    /\ UNCHANGED <<payload, image_data, image, responses, data_list, it,
                   result, exc, stdout, calls>>

\* Line 12: image_data = base64.b64decode(data.image.split(",")[1]).
Decode(r) ==
    /\ current = r
    /\ pc[r] = "decode"
    /\ LET arg == DecoderInput(Val(req[r]).image)
       IN  IF ~arg.ok
           THEN /\ Raise(r, arg.exc)
                /\ UNCHANGED <<payload, image_data>>
           ELSE /\ payload' = [payload EXCEPT ![r] = Some(arg.value)]
                /\ LET dec == B64Decode(arg.value)
                   IN  IF ~dec.ok
                       THEN /\ Raise(r, dec.exc)
                            /\ UNCHANGED image_data
                       ELSE /\ image_data' = [image_data EXCEPT ![r] = Some(dec.value)]
                            /\ Goto(r, "open")
    /\ UNCHANGED <<req, image, responses, data_list, it, stdout, calls>>

\* Lines 13-14: image = Image.open(BytesIO(image_data)).
Open(r) ==
    /\ current = r
    /\ pc[r] = "open"
    /\ LET img == ImageOpen(Val(image_data[r]))
       IN  IF ~img.ok
           THEN /\ Raise(r, img.exc)
                /\ UNCHANGED image
           ELSE /\ image' = [image EXCEPT ![r] = Some(img.value)]
                /\ Goto(r, "analyze")
    /\ UNCHANGED <<req, payload, image_data, responses, data_list, it, stdout,
                   calls>>

\* Line 15: responses = analyze_image(image, dict_of_vars=data.dict_of_vars).
Analyze(r, outcomes) ==
    /\ current = r
    /\ pc[r] = "analyze"
    /\ \E out \in outcomes :
           /\ calls' = Append(calls, [req |-> r, args |-> CallArgs(r),
                                      produced |-> out])
           /\ IF out.kind = "raise"
              THEN /\ Raise(r, "AnalyzeError")
                   /\ UNCHANGED responses
              ELSE /\ responses' = [responses EXCEPT ![r] = Some(CallValue(out))]
                   /\ Goto(r, "init_list")
    /\ UNCHANGED <<req, payload, image_data, image, data_list, it, stdout>>

\* Line 16: data_list = [].
InitList(r) ==
    /\ current = r
    /\ pc[r] = "init_list"
    /\ data_list' = [data_list EXCEPT ![r] = Some(NewList)]
    /\ Goto(r, "gather")
    /\ UNCHANGED <<req, payload, image_data, image, responses, it, stdout,
                   calls>>

\* Lines 17-18: one turn of  for response in responses: data_list.append(response).
\* A coroutine object is not iterable: TypeError.
Gather(r) ==
    /\ current = r
    /\ pc[r] = "gather"
    /\ LET resp == Val(responses[r])
       IN  IF resp.kind = "coroutine"
           THEN /\ Raise(r, "TypeError")
                /\ UNCHANGED <<data_list, it>>
           ELSE IF it[r] < Len(resp.items)
           THEN /\ data_list' = [data_list EXCEPT
                                   ![r] = Some(ListAppend(Val(@), resp.items[it[r] + 1]))]
                /\ it' = [it EXCEPT ![r] = @ + 1]
                /\ Goto(r, "gather")
           ELSE IF resp.kind = "failing"
           THEN /\ Raise(r, "IterationError")
                /\ UNCHANGED <<data_list, it>>
           ELSE /\ Goto(r, "print")
                /\ UNCHANGED <<data_list, it>>
    /\ UNCHANGED <<req, payload, image_data, image, responses, stdout, calls>>

\* Lines 19-22: print('response in route: ', responses[-1] or None).
PrintLast(r) ==
    /\ current = r
    /\ pc[r] = "print"
    /\ LET last == LastOrNone(Val(responses[r]))
       IN  IF ~last.ok
           THEN /\ Raise(r, last.exc)
                /\ UNCHANGED stdout
           ELSE /\ stdout' = Append(stdout, [req |-> r, text |-> last.value])
                /\ Goto(r, "return")
    /\ UNCHANGED <<req, payload, image_data, image, responses, data_list, it,
                   calls>>

\* Line 23: return {"message": ..., "data": data_list, "status": "success"}.
Return(r) ==
    /\ current = r
    /\ pc[r] = "return"
    /\ result' = [result EXCEPT ![r] = Some(Envelope(Val(data_list[r])))]
    /\ pc' = [pc EXCEPT ![r] = "done"]
    /\ current' = 0
    /\ UNCHANGED <<req, payload, image_data, image, responses, data_list, it,
                   exc, stdout, calls>>

(* --------------------------- specifications --------------------------- *)

\* NumRequests requests given to one event loop.
Next ==
    \E r \in Requests :
        \/ Receive(r, SampleImages)
        \/ Decode(r)
        \/ Open(r)
        \/ Analyze(r, SampleOutcomes)
        \/ InitList(r)
        \/ Gather(r)
        \/ PrintLast(r)
        \/ Return(r)

Spec == Init /\ [][Next]_vars

\* One request, with every image string up to MaxImageLen and every
\* collaborator outcome up to MaxItems.
NextOne ==
    \/ Receive(1, AllImages)
    \/ Decode(1)
    \/ Open(1)
    \/ Analyze(1, AllOutcomes)
    \/ InitList(1)
    \/ Gather(1)
    \/ PrintLast(1)
    \/ Return(1)

SpecOne == Init /\ [][NextOne]_vars

(* ------------------------- what the claims read ----------------------- *)

Terminal(r) == pc[r] \in {"done", "raised"}

\* The calls of analyze_image made for request r, and the lines it printed.
CallsOf(r) == SelectSeq(calls, LAMBDA c : c.req = r)
LinesOf(r) == SelectSeq(stdout, LAMBDA l : l.req = r)

\* What analyze_image produced for request r (when it was called).
Called(r) == CallsOf(r) # <<>>
Produced(r) == CallsOf(r)[1].produced

HasComma(s) == \E i \in 1..Len(s) : s[i] = Comma

\* The whole text after the first comma of s.
AfterFirstComma(s) ==
    LET i == CHOOSE k \in 1..Len(s) : s[k] = Comma /\ \A j \in 1..(k - 1) : s[j] # Comma
    IN  SubSeq(s, i + 1, Len(s))

EnvelopeKeys == {"message", "data", "status"}

\* The locals and the outcome of request r.
Frame(r) == <<pc[r], req[r], payload[r], image_data[r], image[r], responses[r],
              data_list[r], it[r], result[r], exc[r]>>

(* -------------------------------- C1 ---------------------------------- *)

C2_DataIsEmittedSequence ==
    \A r \in Requests :
        /\ pc[r] = "done"
           => /\ Len(Val(result[r]).data) = Len(Produced(r).items)
              /\ \A i \in 1..Len(Produced(r).items) :
                     Val(result[r]).data[i] = Produced(r).items[i]
        /\ pc[r] \in {"gather", "print", "return"}
           => Val(data_list[r]) = SubSeq(Produced(r).items, 1, it[r])

C2_Witness ==
    \E r \in Requests :
        /\ pc[r] = "done"
        /\ Len(Val(result[r]).data) >= 2
        /\ Val(result[r]).data[1] # Val(result[r]).data[2]

(* -------------------------------- C3 ---------------------------------- *)

\* C3: when analyze_image returned the empty sequence the request ends by
\* returning (nothing is raised on the way through the print), with data the
\* empty list and status "success".
C3_EmptySequenceSucceeds ==
    \A r \in Requests :
        (Called(r) /\ Produced(r) = Outcome("list", <<>>))
        => /\ pc[r] # "raised"
           /\ exc[r] = None
           /\ pc[r] = "done"
              => /\ Val(result[r]).data = <<>>
                 /\ Val(result[r]).status = "success"

C3_Witness ==
    \E r \in Requests :
        /\ pc[r] = "done"
        /\ Produced(r) = Outcome("list", <<>>)
        /\ Val(result[r]).data = <<>>

(* -------------------------------- C4 ---------------------------------- *)

\* C4: a request whose image string holds no comma never gets past line 12:
\* it raises there, analyze_image is not called for it, it prints nothing and
\* it returns nothing.
C4_NoCommaFailsBeforeCollaborator ==
    \A r \in Requests :
        (pc[r] # "pending" /\ ~HasComma(Val(req[r]).image))
        => /\ pc[r] \in {"decode", "raised"}
           /\ pc[r] = "raised" => exc[r] = "IndexError"
           /\ ~Called(r)
           /\ LinesOf(r) = <<>>
           /\ result[r] = Unbound

C4_Witness ==
    \E r \in Requests :
        /\ pc[r] = "raised"
        /\ ~HasComma(Val(req[r]).image)
        /\ B64Decode(Val(req[r]).image).ok
        /\ Len(Val(req[r]).image) >= 4

(* -------------------------------- C5 ---------------------------------- *)

\* C5: for every image string holding at least one comma, the text handed to
\* the base64 decoder is the whole of the string after its first comma, also
\* when that part holds further commas.
C5_DecodesWholeRemainder ==
    \A r \in Requests :
        payload[r] # Unbound => Val(payload[r]) = AfterFirstComma(Val(req[r]).image)

(* -------------------------------- C6 ---------------------------------- *)

\* C6: a failure at any stage leaves run as an exception: the request has no
\* return value and printed nothing, the stages after the failing one did not
\* run, and each of the causes (no comma, text that does not decode, bytes
\* that are no image, a collaborator that raises, results that fail while
\* gathered) ends the request that way.
C6_FailuresPropagate ==
    \A r \in Requests :
        /\ pc[r] = "raised"
           => /\ exc[r] # None
              /\ result[r] = Unbound
              /\ LinesOf(r) = <<>>
        /\ pc[r] # "raised" => exc[r] = None
        /\ exc[r] = "IndexError"
           => payload[r] = Unbound /\ image_data[r] = Unbound
        /\ exc[r] \in {"IndexError", "binascii.Error"}
           => image_data[r] = Unbound /\ image[r] = Unbound
        /\ exc[r] \in {"IndexError", "binascii.Error", "UnidentifiedImageError"}
           => image[r] = Unbound /\ ~Called(r)
        /\ exc[r] \in {"IndexError", "binascii.Error", "UnidentifiedImageError",
                       "AnalyzeError"}
           => responses[r] = Unbound /\ data_list[r] = Unbound
        /\ (Terminal(r) /\ ~HasComma(Val(req[r]).image))
           => pc[r] = "raised" /\ exc[r] = "IndexError"
        /\ (Terminal(r) /\ payload[r] # Unbound /\ image_data[r] = Unbound)
           => pc[r] = "raised" /\ exc[r] = "binascii.Error"
        /\ (Terminal(r) /\ image_data[r] # Unbound /\ image[r] = Unbound)
           => pc[r] = "raised" /\ exc[r] = "UnidentifiedImageError"
        /\ (Terminal(r) /\ Called(r) /\ Produced(r).kind = "raise")
           => pc[r] = "raised" /\ exc[r] = "AnalyzeError"
        /\ (Terminal(r) /\ Called(r) /\ Produced(r).kind \in {"failing", "coroutine"})
           => pc[r] = "raised" /\ exc[r] \in {"IterationError", "TypeError"}

C6_Witness ==
    \E r \in Requests :
        /\ pc[r] = "raised"
        /\ exc[r] = "IterationError"
        /\ Len(Val(data_list[r])) >= 1

(* -------------------------------- C7 ---------------------------------- *)

\* C7: a request that has passed the print (and so every request that
\* returns) has printed exactly one line, after data_list held every item:
\* the last item emitted, which is the last element of data, or None when
\* nothing was emitted; a request that has not reached that point printed
\* nothing.
C7_OneDiagnosticLine ==
    \A r \in Requests :
        /\ pc[r] \in {"return", "done"}
           => /\ Len(LinesOf(r)) = 1
              /\ Val(data_list[r]) = Produced(r).items
              /\ LinesOf(r)[1].text =
                     IF Produced(r).items = <<>> THEN None
                     ELSE Val(data_list[r])[Len(Val(data_list[r]))]
        /\ pc[r] \notin {"return", "done"} => LinesOf(r) = <<>>

C7_Witness ==
    \E r \in Requests :
        /\ pc[r] = "done"
        /\ Len(Val(result[r]).data) >= 2
        /\ Val(result[r]).data[1] # Val(result[r]).data[Len(Val(result[r]).data)]
        /\ LinesOf(r)[1].text = Val(result[r]).data[Len(Val(result[r]).data)]

(* -------------------------------- C8 ---------------------------------- *)

\* What a request with payload rq gets when it is the only request, with
\* out what analyze_image produces for it: the statements of run in order,
\* data_list starting as the empty list no other request has touched.
RECURSIVE Collect(_, _, _)
Collect(list, items, i) ==
    IF i > Len(items) THEN list
    ELSE Collect(ListAppend(list, items[i]), items, i + 1)

Alone(rq, out) ==
    LET arg == DecoderInput(rq.image)
        dec == B64Decode(arg.value)
        img == ImageOpen(dec.value)
    IN  IF ~arg.ok THEN [exc |-> arg.exc, result |-> Unbound]
        ELSE IF ~dec.ok THEN [exc |-> dec.exc, result |-> Unbound]
        ELSE IF ~img.ok THEN [exc |-> img.exc, result |-> Unbound]
        ELSE IF out.kind = "raise" THEN [exc |-> "AnalyzeError", result |-> Unbound]
        ELSE IF CallValue(out).kind = "coroutine"
             THEN [exc |-> "TypeError", result |-> Unbound]
        ELSE IF out.kind = "failing"
             THEN [exc |-> "IterationError", result |-> Unbound]
        ELSE [exc |-> None,
              result |-> Some(Envelope(Collect(<<>>, CallValue(out).items, 1)))]

\* Whether request r got as far as the call of analyze_image.
ReachesCall(rq) ==
    LET arg == DecoderInput(rq.image)
    IN  arg.ok /\ B64Decode(arg.value).ok /\ ImageOpen(B64Decode(arg.value).value).ok

AloneOutcome(r) ==
    IF Called(r) THEN Alone(Val(req[r]), Produced(r))
    ELSE Alone(Val(req[r]), Outcome("raise", <<>>))

\* A step of the system is a step of one request: the locals and the outcome
\* of every other request stay as they are.
OneRequestSteps ==
    \E r \in Requests : \A q \in Requests \ {r} : Frame(q)' = Frame(q)

\* C8: whatever the order in which the requests are handled, each request
\* that has ended has the response or the failure it gets when handled alone,
\* its data holds the items emitted for it and no other request's, and no
\* step of one request touches the payload, the decoded image, the data_list
\* or the outcome of another.
C8_RequestsIndependent ==
    /\ [](\A r \in Requests :
             Terminal(r)
             => /\ exc[r] = AloneOutcome(r).exc
                /\ result[r] = AloneOutcome(r).result
                /\ Called(r) <=> ReachesCall(Val(req[r]))
                /\ Len(CallsOf(r)) <= 1)
    /\ [][OneRequestSteps]_vars

C8_Witness ==
    \E r, q \in Requests :
        /\ r # q
        /\ pc[r] = "done" /\ pc[q] = "done"
        /\ Len(Val(result[r]).data) >= 1
        /\ Len(Val(result[q]).data) >= 1
        /\ Val(result[r]).data # Val(result[q]).data

(* -------------------------------- C9 ---------------------------------- *)

\* C9 as stated: when analyze_image is asynchronous the handler awaits it
\* and, once it completes, gathers its results and returns the success
\* envelope.
C9_AwaitsAsyncCall ==
    \A r \in Requests :
        (Terminal(r) /\ Called(r) /\ Produced(r).kind = "coroutine")
        => /\ pc[r] = "done"
           /\ result[r] # Unbound
           /\ Val(result[r]).status = "success"
           /\ Val(result[r]).data = Produced(r).items

\* C9 as amended: run never awaits.  While a request is between its first
\* line and its return or raise it is the one the event loop runs, so no
\* other request runs in between; and when analyze_image is asynchronous the
\* coroutine object itself is bound to responses, iterating it raises
\* TypeError, and the request ends with nothing gathered, nothing printed and
\* nothing returned.
C9_AsyncCallNotAwaited ==
    \A r \in Requests :
        /\ pc[r] \notin {"pending", "done", "raised"} => current = r
        /\ (Called(r) /\ Produced(r).kind = "coroutine")
           => /\ pc[r] \in {"init_list", "gather", "raised"}
              /\ Val(responses[r]) = Produced(r)
              /\ pc[r] = "raised"
                 => /\ exc[r] = "TypeError"
                    /\ data_list[r] = Some(<<>>)
                    /\ LinesOf(r) = <<>>
                    /\ result[r] = Unbound

C9_Witness ==
    \E r, q \in Requests :
        /\ r # q
        /\ pc[r] = "raised"
        /\ exc[r] = "TypeError"
        /\ Produced(r).kind = "coroutine"
        /\ Len(Produced(r).items) >= 1
        /\ pc[q] = "done"

(* -------------------------------- C10 --------------------------------- *)

\* The payload of a request stays what the framework handed to run.
PayloadKept ==
    \A r \in Requests : pc[r] # "pending" => req'[r] = req[r]

\* C10: analyze_image is called at most once for a request, and once for a
\* request whose image decoded and loaded; when it is called image_data and
\* image are bound, the image passed is that image, and the mapping passed is
\* the request's dict_of_vars, which no step of the handler changes.
C10_OneCallWithGivenVars ==
    /\ [](\A r \in Requests :
             /\ Len(CallsOf(r)) <= 1
             /\ (image[r] # Unbound /\ pc[r] # "analyze") <=> Called(r)
             /\ Called(r)
                => /\ image_data[r] # Unbound
                   /\ image[r] # Unbound
                   /\ CallsOf(r)[1].args.image = Val(image[r])
                   /\ CallsOf(r)[1].args.image =
                          ImageOpen(B64Decode(Val(payload[r])).value).value
                   /\ CallsOf(r)[1].args.dict_of_vars = Val(req[r]).dict_of_vars)
    /\ [][PayloadKept]_vars

C10_Witness ==
    \E r \in Requests :
        /\ Called(r)
        /\ Terminal(r)
        /\ CallsOf(r)[1].args.dict_of_vars = OneVar

====
